---- MODULE Spec2Model ----
(***************************************************************************)
(* Model of src/main.rs of bevy-flappy-bird: the Update schedule that      *)
(* PlayerPlugin registers (flap_input_system, player_flap_system,          *)
(* gravity_system, constrain_player_system, move_system), the FlapEvent    *)
(* double buffer, the mouse Input resource and the Player component.       *)
(*                                                                         *)
(* Numbers.  The program computes in f32; the model computes exactly on a  *)
(* grid.  One unit of time is 1/DtDen s, one unit of velocity is 1/DtDen   *)
(* px/s and one unit of position is 1/(DtDen*DtDen) px, so that            *)
(*   y_vel += GRAVITY * dt      becomes   y_vel' = y_vel + GRAVITY * d     *)
(*   y     += y_vel * dt        becomes   y'     = y + y_vel * d           *)
(* with no rounding at all.  f32 rounding is not modelled.                 *)
(*                                                                         *)
(* Specifications.  Spec is the program: one spawned player, frames that   *)
(* run the Update schedule in any order the registered constraints allow.  *)
(* LiveSpec adds that frames keep coming.  SpecWorld runs the same frames  *)
(* on worlds with any number of players, SpecTick runs one Update pass     *)
(* from a grid of player states, and SpecClamp applies                     *)
(* constrain_player_system alone to a grid of player states.               *)
(***************************************************************************)
EXTENDS Integers, Sequences, FiniteSets

VARIABLES
    players,        \* the entities with a Player component: <<[x, y, y_vel]>>
    pressed,        \* Input<MouseButton>.pressed
    just_pressed,   \* Input<MouseButton>.just_pressed
    events_a,       \* Events<FlapEvent>: number of events in the older buffer
    events_b,       \* Events<FlapEvent>: number of events in the newer buffer
    unread,         \* events player_flap_system's EventReader has not read yet
    dt,             \* Time::delta_seconds() of the running tick, in 1/DtDen s
    done,           \* systems of the Update schedule that ran in this tick,
                    \* and "apply_deferred" once its commands are applied
    audio,          \* AudioBundle spawn commands queued and not yet applied
    edge,           \* observation: a flap button went released -> pressed in this tick
    clamped,        \* observation: what constrain_player_system did in this tick
    rested,         \* observation: lower clamp fired and no flap edge since
    start           \* observation: players in the initial state

vars == <<players, pressed, just_pressed, events_a, events_b, unread, dt, done,
          audio, edge, clamped, rested, start>>

(* ------------------------------ bounds -------------------------------- *)
DtDen == 4
MaxDt == 1
MaxInputEvents == 1
MaxPlayers == 2
MaxFlapHeight == 245
ClampPosSpan == 70
ClampVelSpan == 30
TickPosCount == 27
TickVelCount == 25

\* origin and step of the grid of tick-start states (px, px/s)
TickPosMin == 20
TickVelMin == 100
TickGridStep == 10

(* ------------------------- program constants -------------------------- *)
BASE_RESOLUTION_X == 144
BASE_RESOLUTION_Y == 200
PLAYER_SIZE_Y == 12
GRAVITY == -650
JUMP_VELOCITY == 150

PosUnit == DtDen * DtDen            \* position units per pixel
VelUnit == DtDen                    \* velocity units per pixel/second

Buttons == {"Left", "Right"}        \* the two buttons flap_input_system reads
ButtonStates == {"Pressed", "Released"}

Systems == {"flap_input_system", "player_flap_system", "gravity_system",
            "constrain_player_system", "move_system"}

\* mutant: gravity_system registered without .before(constrain_player_system)
Before_NoGravityOrder == {<<"flap_input_system", "player_flap_system">>,
                          <<"constrain_player_system", "move_system">>}

\* a.before(b) / b.after(a) of PlayerPlugin::build, as pairs <<a, b>>
Before == {<<"flap_input_system", "player_flap_system">>,
           <<"gravity_system", "constrain_player_system">>,
           <<"constrain_player_system", "move_system">>}

\* the executor may start a system once every system ordered before it has run
CanRun(s) == /\ s \notin done
             /\ \A e \in Before : e[2] = s => e[1] \in done

(* ----------------------------- helpers -------------------------------- *)
\* lerp(t, a, b) = a * (1 - t) + b * t for the rational t = tn/td
lerp(tn, td, a, b) == (a * (td - tn) + b * tn) \div td

\* lerp_window(uv) = lerp_2d(BASE_RESOLUTION, uv), per component
lerp_window_x(tn, td) == lerp(tn, td, 0, BASE_RESOLUTION_X)
lerp_window_y(tn, td) == lerp(tn, td, 0, BASE_RESOLUTION_Y)

\* mutant: the first match is taken (iter().next()) instead of get_single
get_single_Any(ps) == Len(ps) >= 1

\* Query::get_single / get_single_mut is Ok iff exactly one entity matches
get_single(ps) == Len(ps) = 1

LowerBound == (0 - PLAYER_SIZE_Y) * PosUnit
UpperBound == (BASE_RESOLUTION_Y + PLAYER_SIZE_Y) * PosUnit

\* spawn_player: Transform::from_xyz(lerp_window(1/3, 1/2)), Player { y_vel: 0.0 }
SpawnedPlayer == [x |-> lerp_window_x(1, 3) * PosUnit,
                  y |-> lerp_window_y(1, 2) * PosUnit,
                  y_vel |-> 0]

\* Input::press: just_pressed only when the button was not pressed already
InputPress(inp, b) ==
    [pressed |-> inp.pressed \cup {b},
     just_pressed |-> IF b \in inp.pressed THEN inp.just_pressed
                      ELSE inp.just_pressed \cup {b}]

\* Input::release
InputRelease(inp, b) ==
    [pressed |-> inp.pressed \ {b}, just_pressed |-> inp.just_pressed]

\* mouse_button_input_system: clear(), then one press/release per MouseButtonInput
RECURSIVE ApplyInput(_, _)
ApplyInput(inp, evs) ==
    IF evs = << >> THEN inp
    ELSE ApplyInput(IF Head(evs)[2] = "Pressed" THEN InputPress(inp, Head(evs)[1])
                    ELSE InputRelease(inp, Head(evs)[1]),
                    Tail(evs))

mouse_button_input_system(held, evs) ==
    ApplyInput([pressed |-> held, just_pressed |-> {}], evs)

\* mutant: level-triggered, any_pressed instead of any_just_pressed
any_just_pressed_Level(jp) == \E b \in Buttons : b \in pressed

\* Input::any_just_pressed([MouseButton::Left, MouseButton::Right])
any_just_pressed(jp) == \E b \in Buttons : b \in jp

\* the MouseButtonInput events one frame can deliver
InputSeqs == UNION {[1..n -> Buttons \X ButtonStates] : n \in 0..MaxInputEvents}

\* observation: did some flap button go from released to pressed in evs?
RECURSIVE HasEdge(_, _)
HasEdge(held, evs) ==
    IF evs = << >> THEN FALSE
    ELSE LET b == Head(evs)[1]
             s == Head(evs)[2]
         IN  \/ (s = "Pressed" /\ b \notin held)
             \/ HasEdge(IF s = "Pressed" THEN held \cup {b} ELSE held \ {b}, Tail(evs))

\* what one frame's input can leave in Input<MouseButton>, with the edge seen
FrameInputs(held) ==
    {[input |-> mouse_button_input_system(held, evs), edge |-> HasEdge(held, evs)] :
        evs \in InputSeqs}

(* --------------------------- pure rules ------------------------------- *)
\* mutant: gravity subtracted instead of added
Gravity_SignSlip(p, d) == [p EXCEPT !.y_vel = p.y_vel - GRAVITY * d]

\* gravity_system body: player.y_vel += GRAVITY * time.delta_seconds()
Gravity(p, d) == [p EXCEPT !.y_vel = p.y_vel + GRAVITY * d]

\* move_system body: translation += Vec3::Y * player.y_vel * time.delta_seconds()
Move(p, d) == [p EXCEPT !.y = p.y + p.y_vel * d]

\* mutant: the impulse is added to the velocity instead of replacing it
Flap_Add(p) == [p EXCEPT !.y_vel = p.y_vel + JUMP_VELOCITY * VelUnit]

\* player_flap_system body when an event was read
Flap(p) == [p EXCEPT !.y_vel = JUMP_VELOCITY * VelUnit]

\* mutant: the lower branch tests the wrong velocity sign
Constrain_SignSlip(p) ==
    IF p.y < LowerBound /\ p.y_vel > 0
    THEN [p EXCEPT !.y = LowerBound, !.y_vel = 0]
    ELSE IF p.y > UpperBound /\ p.y_vel > 0
         THEN [p EXCEPT !.y = UpperBound, !.y_vel = 0]
         ELSE p

\* mutant: the bounds themselves count as out of bounds (<= and >=)
Constrain_Inclusive(p) ==
    IF p.y <= LowerBound /\ p.y_vel < 0
    THEN [p EXCEPT !.y = LowerBound, !.y_vel = 0]
    ELSE IF p.y >= UpperBound /\ p.y_vel > 0
         THEN [p EXCEPT !.y = UpperBound, !.y_vel = 0]
         ELSE p

\* mutant: the position is clamped but the velocity is not reset
Constrain_KeepVel(p) ==
    IF p.y < LowerBound /\ p.y_vel < 0
    THEN [p EXCEPT !.y = LowerBound]
    ELSE IF p.y > UpperBound /\ p.y_vel > 0
         THEN [p EXCEPT !.y = UpperBound]
         ELSE p

\* constrain_player_system body
Constrain(p) ==
    IF p.y < LowerBound /\ p.y_vel < 0
    THEN [p EXCEPT !.y = LowerBound, !.y_vel = 0]
    ELSE IF p.y > UpperBound /\ p.y_vel > 0
         THEN [p EXCEPT !.y = UpperBound, !.y_vel = 0]
         ELSE p

\* which branch of constrain_player_system is taken
ClampKind(p) ==
    IF p.y < LowerBound /\ p.y_vel < 0 THEN "lower"
    ELSE IF p.y > UpperBound /\ p.y_vel > 0 THEN "upper"
    ELSE "none"

(* ------------------------------ state --------------------------------- *)
Init ==
    /\ players = <<SpawnedPlayer>>
    /\ pressed = {}
    /\ just_pressed = {}
    /\ events_a = 0
    /\ events_b = 0
    /\ unread = 0
    /\ dt = 0
    /\ done = Systems \cup {"apply_deferred"}
    /\ audio = 0
    /\ edge = FALSE
    /\ clamped = "none"
    /\ rested = FALSE
    /\ start = players

\* One frame begins: Events::update_system (First), the input system
\* (PreUpdate) and the clock, then the Update schedule starts from scratch.
\* A frame's input brings a flap edge only while the player is no higher
\* than MaxFlapHeight px, which keeps the reachable positions finite.
BeginTick ==
    /\ "apply_deferred" \in done
    /\ \E d \in 0..MaxDt, f \in FrameInputs(pressed) :
          /\ dt' = d
          /\ pressed' = f.input.pressed
          /\ just_pressed' = f.input.just_pressed
          /\ edge' = f.edge
          /\ rested' = (rested /\ ~f.edge)
          /\ f.edge => \A i \in 1..Len(players) :
                           players[i].y <= MaxFlapHeight * PosUnit
    /\ events_a' = events_b
    /\ events_b' = 0
    /\ unread' = IF unread < events_b THEN unread ELSE events_b
    /\ done' = {}
    /\ UNCHANGED <<players, audio, clamped, start>>

\* The Update schedule ends: every system has run and the queued commands
\* are applied (the AudioBundle entities are spawned and play on their own).
\* The observations of the finished tick are reset here.
EndUpdate ==
    /\ done = Systems
    /\ done' = done \cup {"apply_deferred"}
    /\ audio' = 0
    /\ clamped' = "none"
    /\ UNCHANGED <<players, pressed, just_pressed, events_a, events_b, unread,
                   dt, edge, rested, start>>

flap_input_system ==
    /\ CanRun("flap_input_system")
    /\ done' = done \cup {"flap_input_system"}
    /\ IF get_single(players) /\ any_just_pressed(just_pressed)
       THEN /\ events_b' = events_b + 1
            /\ unread' = unread + 1
       ELSE UNCHANGED <<events_b, unread>>
    /\ UNCHANGED <<players, pressed, just_pressed, events_a, dt, audio, edge,
                   clamped, rested, start>>

player_flap_system ==
    /\ CanRun("player_flap_system")
    /\ done' = done \cup {"player_flap_system"}
    /\ IF get_single(players) /\ unread > 0
       THEN /\ unread' = unread - 1
            /\ players' = <<Flap(players[1])>>
            /\ audio' = audio + 1
            /\ rested' = FALSE
       ELSE UNCHANGED <<unread, players, audio, rested>>
    /\ UNCHANGED <<pressed, just_pressed, events_a, events_b, dt, edge,
                   clamped, start>>

gravity_system ==
    /\ CanRun("gravity_system")
    /\ done' = done \cup {"gravity_system"}
    /\ players' = IF get_single(players) THEN <<Gravity(players[1], dt)>>
                  ELSE players
    /\ UNCHANGED <<pressed, just_pressed, events_a, events_b, unread, dt,
                   audio, edge, clamped, rested, start>>

constrain_player_system ==
    /\ CanRun("constrain_player_system")
    /\ done' = done \cup {"constrain_player_system"}
    /\ IF get_single(players)
       THEN /\ players' = <<Constrain(players[1])>>
            /\ clamped' = ClampKind(players[1])
            /\ rested' = IF ClampKind(players[1]) = "lower"
                         THEN (~edge \/ "player_flap_system" \in done)
                         ELSE rested
       ELSE UNCHANGED <<players, clamped, rested>>
    /\ UNCHANGED <<pressed, just_pressed, events_a, events_b, unread, dt,
                   audio, edge, start>>

move_system ==
    /\ CanRun("move_system")
    /\ done' = done \cup {"move_system"}
    /\ players' = IF get_single(players) THEN <<Move(players[1], dt)>>
                  ELSE players
    /\ UNCHANGED <<pressed, just_pressed, events_a, events_b, unread, dt,
                   audio, edge, clamped, rested, start>>

Next ==
    \/ BeginTick
    \/ flap_input_system
    \/ player_flap_system
    \/ gravity_system
    \/ constrain_player_system
    \/ move_system
    \/ EndUpdate

Spec == Init /\ [][Next]_vars

(* --------------------- frames keep being rendered --------------------- *)
\* App::run drives the frame loop for as long as the window is open: some
\* step of the running frame, or the start of the next one, always follows.
LiveSpec == Init /\ [][Next]_vars /\ WF_vars(Next)

(* ------------ worlds with any number of Player entities --------------- *)
\* The systems are written against Query::get_single; this specification
\* runs the same schedule on worlds holding 0..MaxPlayers Player entities.
InitWorld ==
    /\ \E n \in 0..MaxPlayers : players = [i \in 1..n |-> SpawnedPlayer]
    /\ pressed = {}
    /\ just_pressed = {}
    /\ events_a = 0
    /\ events_b = 0
    /\ unread = 0
    /\ dt = 0
    /\ done = Systems \cup {"apply_deferred"}
    /\ audio = 0
    /\ edge = FALSE
    /\ clamped = "none"
    /\ rested = FALSE
    /\ start = players

SpecWorld == InitWorld /\ [][Next]_vars

(* ------------- constrain_player_system as a pure function ------------- *)
\* Positions within ClampPosSpan px of either bound and velocities within
\* ClampVelSpan px/s of zero, on the pixel grid; gravity_system has run and
\* constrain_player_system is the next system of its chain.
ClampPositions ==
    {(b + k) * PosUnit : b \in {0 - PLAYER_SIZE_Y, BASE_RESOLUTION_Y + PLAYER_SIZE_Y},
                         k \in (0 - ClampPosSpan)..ClampPosSpan}
ClampVelocities == {k * VelUnit : k \in (0 - ClampVelSpan)..ClampVelSpan}

InitClamp ==
    /\ \E yy \in ClampPositions, vv \in ClampVelocities :
          players = <<[SpawnedPlayer EXCEPT !.y = yy, !.y_vel = vv]>>
    /\ pressed = {}
    /\ just_pressed = {}
    /\ events_a = 0
    /\ events_b = 0
    /\ unread = 0
    /\ dt = 0
    /\ done = Systems \ {"constrain_player_system", "move_system"}
    /\ audio = 0
    /\ edge = FALSE
    /\ clamped = "none"
    /\ rested = FALSE
    /\ start = players

SpecClamp == InitClamp /\ [][constrain_player_system]_vars

(* ------------------- one tick as a function of its start -------------- *)
\* The state a tick starts in, drawn from a grid: positions every
\* TickGridStep px from TickPosMin px (and both bounds), velocities every
\* TickGridStep px/s from TickVelMin px/s, any frame time and frame input.
\* The Update schedule then runs once, in any order it allows.
TickPositions ==
    {(TickGridStep * k - TickPosMin) * PosUnit : k \in 0..TickPosCount}
        \cup {LowerBound, UpperBound}
TickVelocities ==
    {(TickGridStep * k - TickVelMin) * VelUnit : k \in 0..TickVelCount}

InitTick ==
    /\ \E yy \in TickPositions, vv \in TickVelocities :
          players = <<[SpawnedPlayer EXCEPT !.y = yy, !.y_vel = vv]>>
    /\ \E held \in SUBSET Buttons : \E f \in FrameInputs(held) :
          /\ pressed = f.input.pressed
          /\ just_pressed = f.input.just_pressed
          /\ edge = f.edge
    /\ events_a \in 0..1
    /\ events_b = 0
    /\ unread = 0
    /\ dt \in 0..MaxDt
    /\ done = {}
    /\ audio = 0
    /\ clamped = "none"
    /\ rested = FALSE
    /\ start = players

NextTick ==
    \/ flap_input_system
    \/ player_flap_system
    \/ gravity_system
    \/ constrain_player_system
    \/ move_system
    \/ EndUpdate

SpecTick == InitTick /\ [][NextTick]_vars

(* ------------------------- step predicates ---------------------------- *)
Ran(s) == s \notin done /\ s \in done'
TickDone == done = Systems
AfterConstrain == /\ "constrain_player_system" \in done
                  /\ "move_system" \notin done

One == players[1]                   \* the single player, where there is one
Jump == JUMP_VELOCITY * VelUnit
InBounds(y) == LowerBound <= y /\ y <= UpperBound

(* ------------------------------- C1 ----------------------------------- *)
\* C1 as stated: immediately after constrain_player_system has run, the
\* player's vertical position lies in [-PLAYER_SIZE.y, BASE_RESOLUTION.y +
\* PLAYER_SIZE.y] = [-12, 212].
C1_PositionInBoundsAfterClamp ==
    [][Ran("constrain_player_system") /\ get_single(players)
          => /\ InBounds(players'[1].y)
             /\ LowerBound = (0 - 12) * PosUnit
             /\ UpperBound = 212 * PosUnit]_vars

\* C1 amended: immediately after constrain_player_system has run, the
\* position lies in [-12, 212], or it lies below -12 with a velocity >= 0, or
\* above 212 with a velocity <= 0 (the system leaves such a player where it is).
C1_OutOfBoundsOnlyMovingInward ==
    [][Ran("constrain_player_system") /\ get_single(players)
          => /\ players'[1].y < LowerBound =>
                    players'[1].y_vel >= 0 /\ players'[1] = One
             /\ players'[1].y > UpperBound =>
                    players'[1].y_vel <= 0 /\ players'[1] = One
             /\ LowerBound = (0 - 12) * PosUnit
             /\ UpperBound = 212 * PosUnit]_vars

\* constrain_player_system has just run, did not clamp, and the player is
\* below the lower bound
C1_Witness ==
    /\ get_single(players)
    /\ AfterConstrain
    /\ clamped = "none"
    /\ One.y < LowerBound

(* ------------------------------- C2 ----------------------------------- *)
\* C2 as stated: within every tick the systems run in the one total order
\* flap_input_system, player_flap_system, gravity_system,
\* constrain_player_system, move_system; in particular player_flap_system
\* never runs after gravity_system, constrain_player_system or move_system.
C2_FixedTotalOrder ==
    [][/\ Ran("flap_input_system") => done = {}
       /\ Ran("player_flap_system") => done = {"flap_input_system"}
       /\ Ran("gravity_system") =>
              done = {"flap_input_system", "player_flap_system"}
       /\ Ran("constrain_player_system") =>
              done = {"flap_input_system", "player_flap_system", "gravity_system"}
       /\ Ran("move_system") => done = Systems \ {"move_system"}]_vars

(* ------------------------------- C3 ----------------------------------- *)
\* C3: for every position and velocity, constrain_player_system yields
\* (-12, 0) when position < -12 and velocity < 0, otherwise (212, 0) when
\* position > 212 and velocity > 0, and otherwise leaves both unchanged; the
\* horizontal position is never touched.  (Checked under SpecClamp, where start
\* is the player the system was applied to.)
C3_ClampContract ==
    ("constrain_player_system" \in done /\ get_single(players)) =>
        LET p == start[1]
            q == One
        IN  /\ q.x = p.x
            /\ IF p.y < (0 - 12) * PosUnit /\ p.y_vel < 0
               THEN q.y = (0 - 12) * PosUnit /\ q.y_vel = 0
               ELSE IF p.y > 212 * PosUnit /\ p.y_vel > 0
                    THEN q.y = 212 * PosUnit /\ q.y_vel = 0
                    ELSE q.y = p.y /\ q.y_vel = p.y_vel
            /\ clamped # "none" => q.y_vel = 0

\* boundary scenario A: position -20, velocity -5 became (-12, 0)
C3_Witness ==
    /\ "constrain_player_system" \in done
    /\ start[1].y = (0 - 20) * PosUnit
    /\ start[1].y_vel = (0 - 5) * VelUnit
    /\ One.y = (0 - 12) * PosUnit
    /\ One.y_vel = 0
    /\ clamped = "lower"

(* ------------------------------- C4 ----------------------------------- *)
\* C4: when player_flap_system runs in a tick in which a FlapEvent was sent,
\* the velocity right after it is JUMP_VELOCITY whatever it was before and
\* exactly one audio trigger is queued in that tick; when none was sent it
\* leaves the player alone and queues no audio trigger.
C4_FlapSetsJumpVelocity ==
    [][Ran("player_flap_system") /\ get_single(players)
          => IF events_b > 0
             THEN /\ players'[1] = [One EXCEPT !.y_vel = 150 * VelUnit]
                  /\ audio = 0 /\ audio' = 1
             ELSE /\ players' = players
                  /\ audio = 0 /\ audio' = 0]_vars

\* the flap scenario: velocity -100, flap edge, velocity 150 and one trigger
C4_Witness ==
    /\ get_single(players)
    /\ done = {"flap_input_system", "player_flap_system"}
    /\ start[1].y_vel = (0 - 100) * VelUnit
    /\ One.y_vel = 150 * VelUnit
    /\ audio = 1

(* ------------------------------- C5 ----------------------------------- *)
\* C5: with a player present, the jump impulse and its audio trigger are
\* applied in a tick if and only if one of the two flap buttons went from
\* released to pressed in that tick (a button merely held gives none), and
\* no FlapEvent is left unread for a later tick.
C5_EdgeTriggered ==
    [][/\ Ran("player_flap_system") /\ get_single(players)
          => IF edge
             THEN players'[1].y_vel = Jump /\ audio' = audio + 1
             ELSE players' = players /\ audio' = audio
       /\ Ran("apply_deferred") => (unread = 0 /\ (audio = 1 <=> edge))
       /\ "apply_deferred" \in done /\ done' = {} => unread' = 0]_vars

\* a button is held from an earlier tick, no edge in this tick, and
\* player_flap_system has run without applying the impulse
C5_Witness ==
    /\ get_single(players)
    /\ pressed # {}
    /\ ~edge
    /\ "player_flap_system" \in done
    /\ "apply_deferred" \notin done
    /\ audio = 0
    /\ One.y_vel < 0

(* ------------------------------- C6 ----------------------------------- *)
\* C6: when the number of Player entities is zero or greater than one, every
\* system of a tick is a no-op: no player changes, no FlapEvent is sent, no
\* audio trigger is queued, and every system still runs to the end of the tick.
C6_NoOpWithoutSinglePlayer ==
    [][Len(players) # 1
          => /\ players' = players
             /\ events_b' = 0 /\ events_a' = 0 /\ unread' = 0
             /\ audio' = 0
             /\ clamped' = "none"]_vars

\* a whole tick with dt > 0 and a flap edge has run on a world with two players
C6_Witness ==
    /\ Len(players) = 2
    /\ TickDone
    /\ edge
    /\ dt > 0

(* ------------------------------- C7 ----------------------------------- *)
\* C7: a tick with no flap edge and no clamp maps (x, y, v) to
\* (x, y + (v + GRAVITY*dt)*dt, v + GRAVITY*dt); move_system with velocity 0
\* leaves the position unchanged.  (Checked under SpecTick, where start is
\* the player the tick started with.)
C7_TickWithoutFlapOrClamp ==
    /\ (TickDone /\ get_single(players) /\ ~edge /\ clamped = "none") =>
          /\ One.x = start[1].x
          /\ One.y_vel = start[1].y_vel + (0 - 650) * dt
          /\ One.y = start[1].y + (start[1].y_vel + (0 - 650) * dt) * dt
    /\ (TickDone /\ get_single(players) /\ One.y_vel = 0) =>
          \/ One.y = start[1].y
          \/ clamped # "none"

\* the spawned player (y = 100, v = 0) after one tick of one time unit
\* 1/DtDen s: v = -650/DtDen px/s and y = 100 - 650/DtDen^2 px
C7_Witness ==
    /\ TickDone
    /\ ~edge
    /\ clamped = "none"
    /\ dt = 1
    /\ start[1].y = 100 * PosUnit
    /\ start[1].y_vel = 0
    /\ One.y_vel = 0 - 650
    /\ One.y = 100 * PosUnit - 650

(* ------------------------------- C8 ----------------------------------- *)
\* C8 as stated: once the clamp has put the player on the lower bound with
\* velocity 0 and no flap edge follows, the clamp does not fire again and the
\* player is at rest (lower bound, velocity 0) at the end of every later tick.
C8_StaysAtRest ==
    [][rested /\ get_single(players)
          => /\ Ran("constrain_player_system") => ClampKind(One) = "none"
             /\ done' = Systems => (players'[1].y = LowerBound /\ players'[1].y_vel = 0)]_vars

\* C8 amended: once the clamp has put the player on the lower bound with
\* velocity 0 and no flap edge follows, in every later tick the position
\* right after constrain_player_system is the lower bound and the velocity
\* there is 0 or GRAVITY*dt, and the end-of-tick position is the lower bound
\* or GRAVITY*dt*dt below it (the player falls for one tick and is clamped
\* again in the next).
C8_ReturnsToLowerBound ==
    [][rested /\ get_single(players)
          => /\ Ran("constrain_player_system") =>
                   /\ players'[1].y = LowerBound
                   /\ players'[1].y_vel \in {0, GRAVITY * dt}
             /\ done' = Systems =>
                   players'[1].y \in {LowerBound, LowerBound + GRAVITY * dt * dt}]_vars

\* a later tick ends with the player below the lower bound and falling
C8_Witness ==
    /\ get_single(players)
    /\ rested
    /\ TickDone
    /\ clamped = "none"
    /\ One.y < LowerBound
    /\ One.y_vel < 0

(* ------------------------------- C9 ----------------------------------- *)
\* C9: in every reachable state, wherever the schedule places
\* player_flap_system, the vertical velocity never exceeds JUMP_VELOCITY.
C9_VelocityAtMostJump ==
    \A i \in 1..Len(players) : players[i].y_vel <= 150 * VelUnit

\* a tick with dt > 0 ends with the velocity at JUMP_VELOCITY: player_flap_system
\* ran after gravity_system
C9_Witness ==
    /\ get_single(players)
    /\ TickDone
    /\ dt > 0
    /\ audio = 1
    /\ One.y_vel = Jump

(* ------------------------------- C10 ---------------------------------- *)
Quiet == ~edge /\ dt > 0

\* C10: if from some tick on there is no flap edge and every tick has
\* dt > 0, then the clamp eventually fires at the lower bound and from then
\* on the position right after constrain_player_system is the lower bound.
C10_EventuallyOnLowerBound ==
    <>[]Quiet => <>[](rested /\ (AfterConstrain /\ get_single(players)
                                    => One.y = LowerBound))

\* a quiet tick after the clamp fired: constrain_player_system has run,
\* did not clamp, and the player is on the lower bound
C10_Witness ==
    /\ get_single(players)
    /\ rested
    /\ Quiet
    /\ AfterConstrain
    /\ clamped = "none"
    /\ One.y = LowerBound
    /\ One.y_vel < 0

====
